---- MODULE Spec2Model ----
(***************************************************************************)
(* TableFormatter of awscli/formatter.py: the tree-to-table builder        *)
(* (_build_table and its helpers), the formatting call that drives it      *)
(* (FullyBufferedFormatter.__call__ / TableFormatter._format_response)     *)
(* and the MultiTable it fills.                                            *)
(*                                                                         *)
(* A nested-data value is a record [t, s, keys, kids]:                     *)
(*   t = "s"  scalar, s names it: "None" is Python None, "" the empty      *)
(*            string, any other s a one-character string;                  *)
(*   t = "l"  list, kids its elements in order;                            *)
(*   t = "d"  dict, keys its keys in insertion order, kids[i] the value    *)
(*            of keys[i].                                                  *)
(***************************************************************************)
EXTENDS Integers, Sequences, FiniteSets, TLC

\* ------------------------------------------------------------------ bounds
MaxNodes == 5      \* nodes (scalars, lists, dicts) of one response
MaxLen == 2        \* elements of one list, keys of one dict
RecordNodes == 6   \* nodes of a response that is a list of records
MaxCalls == 2      \* formatting calls made on one TableFormatter
CallNodes == 2     \* nodes of a response in the multi-call specification
MaxIndent == 2     \* indent levels tried on an empty value

\* ------------------------------------------------------------ nested data
None == "None"
KeyOrder == <<"a", "b">>          \* the keys, in lexicographic order
Keys == {KeyOrder[i] : i \in 1..Len(KeyOrder)}
ScalarNames == {None, "", "x"}
CommandNames == {"cmd"}

Scalar(s) == [t |-> "s", s |-> s, keys |-> <<>>, kids |-> <<>>]
List(kids) == [t |-> "l", s |-> "", keys |-> <<>>, kids |-> kids]
Dict(keys, kids) == [t |-> "d", s |-> "", keys |-> keys, kids |-> kids]

IsList(v) == v.t = "l"
IsDict(v) == v.t = "d"

\* keys of a dict as cells (Python strings)
Strs(ks) == [i \in 1..Len(ks) |-> Scalar(ks[i])]

\* position of key k in dict d (0: absent); d[k] is d.kids[KeyPos(d, k)]
KeyPos(d, k) ==
  IF \E i \in 1..Len(d.keys) : d.keys[i] = k
  THEN CHOOSE i \in 1..Len(d.keys) : d.keys[i] = k
  ELSE 0

\* Python truthiness: None, '', [] and {} are falsy
Truthy(v) ==
  IF v.t = "s" THEN v.s \notin {None, ""} ELSE Len(v.kids) > 0

\* what `for el in v` yields: elements of a list, keys of a dict,
\* characters of a string
Iterate(v) ==
  IF IsList(v) THEN v.kids
  ELSE IF IsDict(v) THEN Strs(v.keys)
  ELSE IF v.s = "" THEN <<>> ELSE <<Scalar(v.s)>>

\* number of nodes of a value
RECURSIVE Size(_)
Size(v) ==
  LET RECURSIVE Sum(_)
      Sum(i) == IF i > Len(v.kids) THEN 0 ELSE Size(v.kids[i]) + Sum(i + 1)
  IN 1 + Sum(1)

Leaves == {Scalar(s) : s \in ScalarNames} \cup {List(<<>>), Dict(<<>>, <<>>)}

\* the values obtained from v by adding one leaf as the last element of v
\* or of the last element of v, and so on down
RECURSIVE Grows(_)
Grows(v) ==
  LET n == Len(v.kids)
      here == IF n >= MaxLen THEN {}
              ELSE IF IsList(v)
                   THEN {List(Append(v.kids, l)) : l \in Leaves}
              ELSE IF IsDict(v)
                   THEN {Dict(Append(v.keys, k), Append(v.kids, l)) :
                           k \in Keys \ {v.keys[i] : i \in 1..n},
                           l \in Leaves}
              ELSE {}
      below == IF n = 0 THEN {}
               ELSE {[v EXCEPT !.kids[n] = g] : g \in Grows(v.kids[n])}
  IN here \cup below

\* the sub-value of v reached by following child positions
RECURSIVE ValueAt(_, _)
ValueAt(v, path) ==
  IF path = <<>> THEN v ELSE ValueAt(v.kids[Head(path)], Tail(path))

\* ------------------------------------------------------------ sorting
Rank(k) == CHOOSE i \in 1..Len(KeyOrder) : KeyOrder[i] = k

\* sorted(S) for a set of string keys
RECURSIVE Sorted(_)
Sorted(S) ==
  IF S = {} THEN <<>>
  ELSE LET m == CHOOSE k \in S : \A j \in S : Rank(k) <= Rank(j)
       IN <<m>> \o Sorted(S \ {m})

Range(f) == {f[i] : i \in DOMAIN f}

\* ------------------------------------------------------------ the walk
\* One event per call of a builder method and per table operation it
\* makes; fn and path name the builder call that made it.
NoExc == "none"
NoRow == <<>>

CallEv(fn, path, title, indent) ==
  [op |-> "call", fn |-> fn, path |-> path, title |-> title,
   indent |-> indent, row |-> NoRow]
NewSectionEv(fn, path, title, indent) ==
  [op |-> "new_section", fn |-> fn, path |-> path, title |-> title,
   indent |-> indent, row |-> NoRow]
AddRowHeaderEv(fn, path, headers) ==
  [op |-> "add_row_header", fn |-> fn, path |-> path, title |-> None,
   indent |-> 0, row |-> Strs(headers)]
AddRowEv(fn, path, row) ==
  [op |-> "add_row", fn |-> fn, path |-> path, title |-> None,
   indent |-> 0, row |-> row]

scalar_type(element) == ~(IsList(element) \/ IsDict(element))

\* _group_scalar_keys; on a value that is not a dict it raises TypeError
\* (None is not iterable, current[element] is not defined for the
\* characters of a string or the non-integer elements of a list), except
\* that '' and [] have nothing to iterate and give two empty lists
group_scalar_keys(current) ==
  IF IsDict(current)
  THEN LET hs == {current.keys[i] : i \in {j \in 1..Len(current.keys) :
                                             scalar_type(current.kids[j])}}
           ms == {current.keys[i] : i \in {j \in 1..Len(current.keys) :
                                             ~scalar_type(current.kids[j])}}
       IN [headers |-> Sorted(hs), more |-> Sorted(ms), exc |-> NoExc]
  ELSE IF (current.t = "s" /\ current.s = None) \/ Len(Iterate(current)) > 0
       THEN [headers |-> <<>>, more |-> <<>>, exc |-> "TypeError"]
       ELSE [headers |-> <<>>, more |-> <<>>, exc |-> NoExc]

group_scalar_keys_from_list(list_of_dicts) ==
  LET n == Len(list_of_dicts.kids)
      G(i) == group_scalar_keys(list_of_dicts.kids[i])
  IN IF \E i \in 1..n : G(i).exc # NoExc
     THEN [headers |-> <<>>, more |-> <<>>, exc |-> "TypeError"]
     ELSE [headers |-> Sorted(UNION {Range(G(i).headers) : i \in 1..n}),
           more |-> Sorted(UNION {Range(G(i).more) : i \in 1..n}),
           exc |-> NoExc]

\* element.get(header, ''); a '' or [] that stands where a record is
\* expected has no get, which shows only when there is a header to look up
Get(element, header) ==
  IF KeyPos(element, header) = 0 THEN Scalar("")
  ELSE element.kids[KeyPos(element, header)]
\* What a stretch of the walk does: ev the calls and table operations it
\* makes, in order; exc the exception it raises (NoExc: it completes).
Did(ev) == [ev |-> ev, exc |-> NoExc]
Raised(ev, exc) == [ev |-> ev, exc |-> exc]
\* a, and then b unless a raised
Then(a, b) ==
  IF a.exc # NoExc THEN a ELSE [ev |-> a.ev \o b.ev, exc |-> b.exc]
\* the return value of a call that did r
Returning(r, ret) == [ev |-> r.ev, exc |-> r.exc, ret |-> ret]

RECURSIVE build_table(_, _, _, _)
RECURSIVE build_sub_table_from_dict(_, _, _)
RECURSIVE build_sub_table_from_list(_, _, _, _)

\* `for remaining in more[j..]`: the sub-builds of one dict or one record,
\* which is the value at path; a key the record lacks is skipped
RECURSIVE build_remaining(_, _, _, _, _)
build_remaining(element, more, j, indent_level, path) ==
  IF j > Len(more) THEN Did(<<>>)
  ELSE Then(IF KeyPos(element, more[j]) = 0 THEN Did(<<>>)
            ELSE build_table(more[j],
                             element.kids[KeyPos(element, more[j])],
                             indent_level + 1,
                             Append(path, KeyPos(element, more[j]))),
            build_remaining(element, more, j + 1, indent_level, path))

\* `for item in current[i..]` of _build_table, for a list whose first
\* element is not a dict
RECURSIVE build_items(_, _, _)
build_items(current, i, path) ==
  IF i > Len(current.kids) THEN Did(<<>>)
  ELSE LET item == current.kids[i]
       IN Then(IF scalar_type(item)
               THEN Did(<<AddRowEv("_build_table", path, <<item>>)>>)
               ELSE IF \A k \in DOMAIN Iterate(item) :
                         scalar_type(Iterate(item)[k])
               THEN Did(<<AddRowEv("_build_table", path, Iterate(item))>>)
               ELSE build_table(None, item, 0, Append(path, i)),
               build_items(current, i + 1, path))

\* `for element in current[i..]` of _build_sub_table_from_list
RECURSIVE build_records(_, _, _, _, _, _, _)
build_records(current, i, headers, more, indent_level, title, path) ==
  IF i > Len(current.kids) THEN Did(<<>>)
  ELSE LET fn == "_build_sub_table_from_list"
           element == current.kids[i]
           reopen == IF i > 1 /\ more # <<>>
                     THEN <<NewSectionEv(fn, path, title, indent_level),
                            AddRowHeaderEv(fn, path, headers)>>
                     ELSE <<>>
       IN IF ~IsDict(element) /\ headers # <<>>
          THEN Raised(reopen, "AttributeError")
          ELSE Then(Did(Append(reopen,
                       AddRowEv(fn, path, [h \in 1..Len(headers) |->
                                             Get(element, headers[h])]))),
               Then(build_remaining(element, more, 1, indent_level,
                                    Append(path, i)),
                    build_records(current, i + 1, headers, more,
                                  indent_level, title, path)))

build_sub_table_from_list(current, indent_level, title, path) ==
  LET fn == "_build_sub_table_from_list"
      call == <<CallEv(fn, path, title, indent_level)>>
      g == group_scalar_keys_from_list(current)
  IN IF g.exc # NoExc THEN Raised(call, g.exc)
     ELSE Then(Did(Append(call, AddRowHeaderEv(fn, path, g.headers))),
               build_records(current, 1, g.headers, g.more, indent_level,
                             title, path))

\* _build_sub_table_from_dict without its special case for a single
\* scalar key
build_sub_table_from_dict_no_special_case(current, indent_level, path) ==
  LET fn == "_build_sub_table_from_dict"
      call == <<CallEv(fn, path, None, indent_level)>>
      g == group_scalar_keys(current)
      headers == g.headers
      own == IF headers # <<>>
             THEN <<AddRowHeaderEv(fn, path, headers),
                    AddRowEv(fn, path, [h \in 1..Len(headers) |->
                                          Get(current, headers[h])])>>
             ELSE <<>>
  IN Then(Did(call \o own),
          build_remaining(current, g.more, 1, indent_level, path))

build_sub_table_from_dict(current, indent_level, path) ==
  LET fn == "_build_sub_table_from_dict"
      call == <<CallEv(fn, path, None, indent_level)>>
      g == group_scalar_keys(current)
      headers == g.headers
      own == IF Len(headers) = 1
             THEN <<AddRowEv(fn, path, <<Scalar(headers[1]),
                                         Get(current, headers[1])>>)>>
             ELSE IF headers # <<>>
             THEN <<AddRowHeaderEv(fn, path, headers),
                    AddRowEv(fn, path, [h \in 1..Len(headers) |->
                                          Get(current, headers[h])])>>
             ELSE <<>>
  IN Then(Did(call \o own),
          build_remaining(current, g.more, 1, indent_level, path))

\* _build_table opening the section before it looks at current
build_table_section_first(title, current, indent_level, path) ==
  LET fn == "_build_table"
      call == <<CallEv(fn, path, title, indent_level)>>
      sec == IF title # None
             THEN <<NewSectionEv(fn, path, title, indent_level)>>
             ELSE <<>>
  IN IF ~Truthy(current) THEN Returning(Did(call \o sec), FALSE)
     ELSE Returning(
            Then(Did(call \o sec),
                 IF IsList(current)
                 THEN IF IsDict(current.kids[1])
                      THEN build_sub_table_from_list(current, indent_level,
                                                     title, path)
                      ELSE build_items(current, 1, path)
                 ELSE IF IsDict(current)
                 THEN build_sub_table_from_dict(current, indent_level, path)
                 ELSE Did(<<>>)),
            TRUE)

\* _build_table(title, current, indent_level) called on the value at path;
\* ret is what it returns when it raises nothing
build_table(title, current, indent_level, path) ==
  LET fn == "_build_table"
      call == <<CallEv(fn, path, title, indent_level)>>
      sec == IF title # None
             THEN <<NewSectionEv(fn, path, title, indent_level)>>
             ELSE <<>>
  IN IF ~Truthy(current) THEN Returning(Did(call), FALSE)
     ELSE Returning(
            Then(Did(call \o sec),
                 IF IsList(current)
                 THEN IF IsDict(current.kids[1])
                      THEN build_sub_table_from_list(current, indent_level,
                                                     title, path)
                      ELSE build_items(current, 1, path)
                 ELSE IF IsDict(current)
                 THEN build_sub_table_from_dict(current, indent_level, path)
                 ELSE Did(<<>>)),
            TRUE)

IsTableOp(e) == e.op # "call"
\* the table operations among the events, as the table sees them
TableOps(ev) ==
  LET ops == SelectSeq(ev, IsTableOp)
  IN [i \in 1..Len(ops) |->
        [op |-> ops[i].op, title |-> ops[i].title,
         indent |-> ops[i].indent, row |-> ops[i].row]]
\* ------------------------------------------------------------ MultiTable
\* A table is its sections in the order they were added; the last one is
\* the current section.  headers is <<>> or <<the header row>>.
EmptyTable == <<>>

new_section(t, title, indent_level) ==
  Append(t, [title |-> title, indent_level |-> indent_level,
             headers |-> <<>>, rows |-> <<>>])

add_row_header(t, columns) ==
  IF t = <<>> THEN t ELSE [t EXCEPT ![Len(t)].headers = <<columns>>]

add_row(t, values) ==
  IF t = <<>> THEN t
  ELSE [t EXCEPT ![Len(t)].rows = Append(t[Len(t)].rows, values)]

\* the table after the operations ops[i..]
RECURSIVE ApplyOps(_, _, _)
ApplyOps(t, ops, i) ==
  IF i > Len(ops) THEN t
  ELSE LET o == ops[i]
           t1 == IF o.op = "new_section"
                 THEN new_section(t, o.title, o.indent)
                 ELSE IF o.op = "add_row_header"
                 THEN add_row_header(t, o.row)
                 ELSE add_row(t, o.row)
       IN ApplyOps(t1, ops, i + 1)

\* ------------------------------------------------------------ the call
\* what table.render(stream) can do: write it all, or fail on a write with
\* a closed pipe (an IOError), with another IOError (the disk is full), or
\* with an error that is not an IOError
WriteOutcomes == {"ok", "BrokenPipeError", "IOError", "UnicodeEncodeError"}
IOErrors == {"BrokenPipeError", "IOError"}

VARIABLES response, pc, ncalls, table, events, ret, rendered, write,
          error, flushes

vars == <<response, pc, ncalls, table, events, ret, rendered, write,
          error, flushes>>

\* TableFormatter._format_response on self.table = t, when the walk does b
\* and render does wr
Formatted(b, t1, wr) ==
  IF b.exc # NoExc
  THEN [table |-> t1, ev |-> b.ev, ret |-> FALSE, rendered |-> <<>>,
        write |-> "none", exc |-> b.exc]
  ELSE IF b.ret
  THEN [table |-> t1, ev |-> b.ev, ret |-> TRUE, rendered |-> <<t1>>,
        write |-> wr,
        exc |-> IF wr = "ok" \/ wr \in IOErrors THEN NoExc ELSE wr]
  ELSE [table |-> t1, ev |-> b.ev, ret |-> FALSE, rendered |-> <<>>,
        write |-> "none", exc |-> NoExc]

Built(b, t, wr) == Formatted(b, ApplyOps(t, TableOps(b.ev), 1), wr)

format_response(command_name, resp, t, wr) ==
  Built(build_table(command_name, resp, 0, <<>>), t, wr)

\* the TableFormatter as constructed, no call made yet
Constructed ==
  /\ pc = "input"
  /\ ncalls = 0
  /\ table = EmptyTable
  /\ events = <<>>
  /\ ret = FALSE
  /\ rendered = <<>>
  /\ write = "none"
  /\ error = NoExc
  /\ flushes = 0

Init == response \in Leaves /\ Constructed

\* the caller's response grows by one node
Extend(limit) ==
  /\ pc = "input"
  /\ Size(response) < limit
  /\ response' \in Grows(response)
  /\ UNCHANGED <<pc, ncalls, table, events, ret, rendered, write, error,
                 flushes>>

\* what FullyBufferedFormatter.__call__ leaves when _format_response did f:
\* an IOError is dropped, anything else propagates, the stream is flushed
Called(f) ==
  /\ table' = f.table
  /\ events' = f.ev
  /\ ret' = f.ret
  /\ rendered' = f.rendered
  /\ write' = f.write
  /\ error' = IF f.exc \in IOErrors THEN NoExc ELSE f.exc
  /\ flushes' = flushes + 1

\* FullyBufferedFormatter.__call__(command_name, response, stream)
Call(limit, outcomes) ==
  /\ pc = "input"
  /\ ncalls < limit
  /\ \E command_name \in CommandNames, wr \in outcomes :
       Called(format_response(command_name, response, table, wr))
  /\ ncalls' = ncalls + 1
  /\ pc' = "done"
  /\ UNCHANGED response

\* the caller has another response to format with the same formatter
Receive ==
  /\ pc = "done"
  /\ ncalls < MaxCalls
  /\ response' \in Leaves
  /\ pc' = "input"
  /\ UNCHANGED <<ncalls, table, events, ret, rendered, write, error,
                 flushes>>

\* one formatting call, on a stream that takes every write
Next == Extend(MaxNodes) \/ Call(1, {"ok"})
Spec == Init /\ [][Next]_vars

\* one formatting call whose response is a list of records (a non-empty
\* list whose elements are all dicts)
IsRecords(v) ==
  IsList(v) /\ Len(v.kids) > 0 /\ \A i \in 1..Len(v.kids) : IsDict(v.kids[i])

InitRecords == response = List(<<Dict(<<>>, <<>>)>>) /\ Constructed

ExtendRecords ==
  /\ pc = "input"
  /\ Size(response) < RecordNodes
  /\ response' \in {g \in Grows(response) : IsRecords(g)}
  /\ UNCHANGED <<pc, ncalls, table, events, ret, rendered, write, error,
                 flushes>>

NextRecords == ExtendRecords \/ Call(1, {"ok"})
SpecRecords == InitRecords /\ [][NextRecords]_vars

\* several formatting calls on one formatter, on a stream that may fail
NextCalls == Extend(CallNodes) \/ Call(MaxCalls, WriteOutcomes) \/ Receive
SpecCalls == Init /\ [][NextCalls]_vars
\* ------------------------------------------------------------ properties
Done == pc = "done"

BUILD == "_build_table"
FROM_DICT == "_build_sub_table_from_dict"
FROM_LIST == "_build_sub_table_from_list"

AllTitles == {None} \cup CommandNames \cup Keys

\* the calls of builder method fn made by the walk, as indices of events
CallsOf(fn) ==
  {i \in DOMAIN events : events[i].op = "call" /\ events[i].fn = fn}

\* the value a builder call was made on
Arg(i) == ValueAt(response, events[i].path)

\* the indices of the table operations made by the call of fn at path
\* itself (not by the calls it makes), in order
OwnIdx(fn, path) ==
  SelectSeq([j \in 1..Len(events) |-> j],
            LAMBDA j : /\ events[j].op # "call"
                       /\ events[j].fn = fn
                       /\ events[j].path = path)

OwnOps(fn, path) ==
  LET idx == OwnIdx(fn, path) IN [k \in 1..Len(idx) |-> events[idx[k]]]

OwnOf(fn, path, op) ==
  LET IsOp(e) == e.op = op IN SelectSeq(OwnOps(fn, path), IsOp)

IsScalar(v) == v.t = "s"
AllScalar(v) == \A k \in 1..Len(v.kids) : IsScalar(v.kids[k])

\* keys with a scalar value, and with a list or dict value, in some record
ScalarKeysOf(v) ==
  {k \in Keys : \E r \in 1..Len(v.kids) :
     LET pos == KeyPos(v.kids[r], k)
     IN pos # 0 /\ IsScalar(v.kids[r].kids[pos])}
StructKeysOf(v) ==
  {k \in Keys : \E r \in 1..Len(v.kids) :
     LET pos == KeyPos(v.kids[r], k)
     IN pos # 0 /\ ~IsScalar(v.kids[r].kids[pos])}

\* row is the keys of S as string cells, in lexicographic order
IsSortedKeys(row, S) ==
  /\ Len(row) = Cardinality(S)
  /\ \A c \in 1..Len(row) : IsScalar(row[c]) /\ row[c].s \in S
  /\ \A c, d \in 1..Len(row) : c < d => Rank(row[c].s) < Rank(row[d].s)

IsPrefix(p, q) == Len(p) <= Len(q) /\ \A k \in 1..Len(p) : p[k] = q[k]

\* C1: for a list of records, every header row the list step emits is the
\* lexicographically sorted union of the records' scalar keys, and the
\* list step emits one data row per record, in order, whose cells are the
\* record's values for the header keys, '' for a key the record lacks.
C1_ListHeaderAndRows ==
  Done =>
    \A i \in CallsOf(FROM_LIST) :
      LET v == Arg(i)
          hdrs == OwnOf(FROM_LIST, events[i].path, "add_row_header")
          rows == OwnOf(FROM_LIST, events[i].path, "add_row")
      IN IsRecords(v) =>
           /\ Len(hdrs) >= 1
           /\ \A h \in 1..Len(hdrs) :
                IsSortedKeys(hdrs[h].row, ScalarKeysOf(v))
           /\ Len(rows) = Len(v.kids)
           /\ \A r \in 1..Len(rows) :
                /\ Len(rows[r].row) = Len(hdrs[1].row)
                /\ \A c \in 1..Len(rows[r].row) :
                     LET pos == KeyPos(v.kids[r], hdrs[1].row[c].s)
                     IN rows[r].row[c] = IF pos = 0 THEN Scalar("")
                                         ELSE v.kids[r].kids[pos]

\* the same dicts with their keys inserted in lexicographic order
RECURSIVE Canon(_)
Canon(v) ==
  IF IsDict(v)
  THEN LET ks == Sorted(Range(v.keys))
       IN Dict(ks, [k \in 1..Len(ks) |-> Canon(v.kids[KeyPos(v, ks[k])])])
  ELSE IF IsList(v)
  THEN List([k \in 1..Len(v.kids) |-> Canon(v.kids[k])])
  ELSE v

\* C2: the table operations of the walk do not depend on the insertion
\* order of the keys of the dicts of the response: the walk of the
\* response and the walk of the same response with every dict's keys
\* inserted in sorted order make the same operations with the same cells.
C2_InsertionOrderIndependent ==
  Done =>
    TableOps(build_table(events[1].title, Canon(response), 0, <<>>).ev)
      = TableOps(events)

\* C3: the build walk never raises, whatever the response.
C3_BuildTotal ==
  Done => error \notin {"TypeError", "AttributeError"}

\* C4: no table state crosses calls: each call's walk starts on a table
\* without sections, and the table a call renders holds exactly the
\* sections and rows built from that call's response.
C4_FreshTablePerCall ==
  /\ pc = "input" => table = EmptyTable
  /\ (Done /\ rendered # <<>>) =>
       rendered[1] = ApplyOps(EmptyTable, TableOps(events), 1)

NothingBuilt(b) == b.exc = NoExc /\ ~b.ret /\ TableOps(b.ev) = <<>>

\* C5: _build_table on an empty value ({}, [], None, '') makes no table
\* operation and returns False, with any title at any indent level; so a
\* structural key with an empty value opens no section, and a call on an
\* empty response renders nothing.
C5_EmptyBuildsNothing ==
  Done =>
    /\ \A i \in CallsOf(BUILD) :
         ~Truthy(Arg(i)) =>
           /\ \A j \in DOMAIN events :
                events[j].path = events[i].path => events[j].op = "call"
           /\ \A title \in AllTitles, level \in 0..MaxIndent :
                NothingBuilt(build_table(title, Arg(i), level,
                                         events[i].path))
    /\ ~Truthy(response) =>
         ~ret /\ rendered = <<>> /\ write = "none" /\ table = EmptyTable

C5_Witness ==
  /\ Done
  /\ \E i \in CallsOf(BUILD) :
       /\ events[i].path # <<>>
       /\ events[i].title \in Keys
       /\ ~Truthy(Arg(i))

\* C6: a data row added to a section after the section's header row was
\* set has as many cells as that header has columns.
C6_RowsMatchHeader ==
  Done =>
    \A j \in DOMAIN events :
      events[j].op = "add_row" =>
        \A h \in 1..(j - 1) :
          ( /\ events[h].op = "add_row_header"
            /\ \A m \in (h + 1)..(j - 1) :
                 events[m].op \notin {"new_section", "add_row_header"} )
          => Len(events[j].row) = Len(events[h].row)

\* C7: a closed pipe during render is suppressed (the call returns
\* normally and the stream is still flushed); any other write failure
\* during render propagates to the caller.
C7_OnlyClosedPipeSuppressed ==
  Done =>
    /\ write = "BrokenPipeError" => error = NoExc /\ flushes = ncalls
    /\ write \in WriteOutcomes \ {"ok", "BrokenPipeError"} => error = write

\* C8: for a dict with exactly one key whose value is scalar, whatever its
\* structural keys, the dict step itself emits exactly one data row, the
\* two cells [key, value], and no header row.
C8_SingleScalarKeyRow ==
  Done =>
    \A i \in CallsOf(FROM_DICT) :
      LET v == Arg(i)
          sk == {k \in 1..Len(v.keys) : IsScalar(v.kids[k])}
          own == OwnOps(FROM_DICT, events[i].path)
      IN Cardinality(sk) = 1 =>
           LET k == CHOOSE k \in sk : TRUE
           IN /\ Len(own) = 1
              /\ own[1].op = "add_row"
              /\ own[1].row = <<Scalar(v.keys[k]), v.kids[k]>>

C8_Witness ==
  /\ Done
  /\ \E i \in CallsOf(FROM_DICT) :
       /\ Len(Arg(i).keys) > 1
       /\ Cardinality({k \in 1..Len(Arg(i).keys) :
                         IsScalar(Arg(i).kids[k])}) = 1
       /\ Len(OwnOps(FROM_DICT, events[i].path)) = 1

\* C9: for a list of records at title T and indent level L: with more than
\* one record and some structural key, every record after the first gets
\* a fresh section (T, L) and the same header before its row, and the
\* sub-builds of a record (at level L + 1) come after its row and before
\* the next record's section; otherwise no section is opened by the list
\* step and the header is emitted once.
C9_SectionPerRecord ==
  Done =>
    \A i \in CallsOf(FROM_LIST) :
      LET v == Arg(i)
          p == events[i].path
          n == Len(v.kids)
          idx == OwnIdx(FROM_LIST, p)
          own == OwnOps(FROM_LIST, p)
          RowIdx(r) == IF r = 1 THEN idx[2] ELSE idx[3 * r - 1]
      IN IsRecords(v) =>
           IF n > 1 /\ StructKeysOf(v) # {}
           THEN /\ Len(own) = 3 * n - 1
                /\ own[1].op = "add_row_header"
                /\ own[2].op = "add_row"
                /\ \A r \in 2..n :
                     /\ own[3 * r - 3].op = "new_section"
                     /\ own[3 * r - 3].title = events[i].title
                     /\ own[3 * r - 3].indent = events[i].indent
                     /\ own[3 * r - 2].op = "add_row_header"
                     /\ own[3 * r - 2].row = own[1].row
                     /\ own[3 * r - 1].op = "add_row"
                /\ \A r \in 1..n : \A j \in DOMAIN events :
                     IsPrefix(Append(p, r), events[j].path) =>
                       /\ j > RowIdx(r)
                       /\ r < n => j < idx[3 * r]
                       /\ ( /\ events[j].op = "call"
                            /\ events[j].fn = BUILD
                            /\ Len(events[j].path) = Len(p) + 2 )
                          => events[j].indent = events[i].indent + 1
           ELSE /\ OwnOf(FROM_LIST, p, "new_section") = <<>>
                /\ Len(OwnOf(FROM_LIST, p, "add_row_header")) = 1

\* the elements of the list that call i of _build_table was made on are
\* handled as C10 says
ItemsAsClaimed(i) ==
  LET v == Arg(i)
      p == events[i].path
      n == Len(v.kids)
      rowItems == {k \in 1..n : IsScalar(v.kids[k]) \/ AllScalar(v.kids[k])}
      rows == OwnOf(BUILD, p, "add_row")
      RowOf(k) == rows[Cardinality({m \in rowItems : m <= k})]
  IN /\ Len(rows) = Cardinality(rowItems)
     /\ \A k \in rowItems :
          /\ IsScalar(v.kids[k]) => RowOf(k).row = <<v.kids[k]>>
          /\ \A j \in DOMAIN events : events[j].path # Append(p, k)
     /\ \A k \in (1..n) \ rowItems :
          \E j \in DOMAIN events :
            events[j] = CallEv(BUILD, Append(p, k), None, events[i].indent)

\* C10: in a non-empty list whose first element is not a dict, built at
\* indent level L, a scalar element gives a one-cell row, a list or dict
\* whose elements (for a dict, values) are all scalars gives one row, and
\* any other element is built by a call of _build_table with title None
\* at indent level L.
C10_ItemClassification ==
  Done =>
    \A i \in CallsOf(BUILD) :
      (IsList(Arg(i)) /\ Len(Arg(i).kids) > 0 /\ ~IsDict(Arg(i).kids[1]))
        => ItemsAsClaimed(i)
====
